---------------------------- MODULE Spec2Model ----------------------------
(***************************************************************************)
(* A model of bitscore-vs-identity.py: the generation of a subject/query   *)
(* pair with an exact number of amino acid mismatches (sampleBitScore),    *)
(* the sweep over mismatch levels with its per-level counters (plot), and  *)
(* the walk over the sensitivities and the subplot grid (main).            *)
(*                                                                         *)
(* DIAMOND is the environment.  One call of it either returns an output,   *)
(* exits non-zero, prints something that is no number, runs into the       *)
(* timeout of the call (where the call has one) or does not return.        *)
(* Bitscores are modelled as the integers 0..MaxScore, amino acids as the  *)
(* indices 1..NumAAs into list(CODONS), sequence positions as 1..length    *)
(* (Python's 0..length-1), mismatch levels and grid cells as in the code.  *)
(* The translation of the query into DNA (line 112) feeds only DIAMOND and *)
(* is part of the environment's choice of output.                          *)
(***************************************************************************)
EXTENDS Integers, Sequences, FiniteSets

\* Bounds of the model.
MaxLength == 2
MaxIncrement == 2
MaxIterations == 2
MaxScore == 1
MaxCandidates == 2
NumAAs == 3

\* Constants of the program.
zeroBitscoreScale == 2
cols == 3
ylimMargin == 5
matchColor == "steelblue"
missColor == "tomato"
Sensitivities ==
    << "None", "faster", "fast", "very-sensitive", "mid-sensitive",
       "more-sensitive", "sensitive", "ultra-sensitive" >>

VARIABLES
    length, errorIncrement, iterations,      \* args
    sensitivities, rows, dimensions,         \* main: the tuple, the grid, its cursor
    sensIdx, cell, drawn, hidden, saved,     \* main: progress and the figure
    pc, raised,                              \* position, last exception raised
    errorCount, iteration,                   \* plot: loop variables
    errorCounts, bitscores, color,           \* plot: the scatter series
    successCounts, missCounts,               \* plot: the per-level Counters
    successX, successY, ylim,                \* plot: the rate series, the y axis
    sampledAt, matchSeen,                    \* history: level and oracle answer per trial
    subject, indices, queryAa                \* sampleBitScore: locals

argVars == << length, errorIncrement, iterations >>
mainVars == << sensitivities, rows, dimensions, sensIdx, cell, drawn, hidden, saved >>
plotVars == << errorCount, iteration, errorCounts, bitscores, color,
               successCounts, missCounts, successX, successY, ylim,
               sampledAt, matchSeen >>
genVars == << subject, indices, queryAa >>
vars == << argVars, mainVars, plotVars, genVars, pc, raised >>

-----------------------------------------------------------------------------
(* sampleBitScore, lines 97-115: the subject and the query.                *)

AAS == 1..NumAAs

\* sum(a != b for (a, b) in zip(queryAa, subject.sequence))
Hamming(a, b) ==
    LET n == IF Len(a) < Len(b) THEN Len(a) ELSE Len(b)
    IN  Cardinality({i \in 1..n : a[i] # b[i]})

\* "".join(choice(aas) for _ in range(length))
Subjects(n) == [1..n -> AAS]

\* shuffle(list(range(length))): every order of the positions.
Shuffles(n) == {p \in [1..n -> 1..n] : \A i, j \in 1..n : p[i] = p[j] => i = j}

\* indices[:errorCount]
Prefix(s, n) == SubSeq(s, 1, IF n < Len(s) THEN n ELSE Len(s))

\* A faulty variant: the replacement is drawn once, and may be the residue itself.
NewAAs_NoRetry(existingAA) == AAS

\* while newAA == existingAA: newAA = choice(aas)
NewAAs(existingAA) == {newAA \in AAS : newAA # existingAA}

\* for index in indices: queryAa[index] = newAA, the residue read from subject.
RECURSIVE Queries(_, _, _)
Queries(subj, query, idx) ==
    IF idx = << >> THEN {query}
    ELSE UNION { Queries(subj, [query EXCEPT ![Head(idx)] = newAA], Tail(idx))
                 : newAA \in NewAAs(subj[Head(idx)]) }

\* Every queryAa lines 100-110 can build from a subject.
FinalQueries(s, e) == UNION { Queries(s, s, Prefix(p, e)) : p \in Shuffles(Len(s)) }

\* What the sanity check of line 115 can evaluate to, for a length and an errorCount.
SanityResults(n, e) ==
    UNION { { e = Hamming(q, s) : q \in FinalQueries(s, e) } : s \in Subjects(n) }

SanityTable == [n \in 0..MaxLength |-> [e \in 0..MaxLength |-> SanityResults(n, e)]]

-----------------------------------------------------------------------------
(* sampleBitScore, lines 146-153: the bitscore of DIAMOND's output.        *)

Scores == 0..MaxScore

\* The bitscore column of DIAMOND's output, one number per line; << >> when empty.
OracleOutputs == UNION { [1..n -> Scores] : n \in 0..MaxCandidates }

ParseBitscore(match) ==
    IF match = << >> THEN [raised |-> "none", bitscore |-> 0]
    ELSE IF \A i \in 2..Len(match) : match[1] >= match[i]
         THEN [raised |-> "none", bitscore |-> match[1]]
         ELSE [raised |-> "AssertionError@150", bitscore |-> 0]

\* What sampleBitScore can return: the bitscore, and whether DIAMOND printed any.
Returns ==
    { [bitscore |-> ParseBitscore(m).bitscore, matched |-> m # << >>] :
        m \in {o \in OracleOutputs : ParseBitscore(o).raised = "none"} }

\* What sampleBitScore can raise other than a timeout.
FatalErrors(n, e) ==
    (IF FALSE \in SanityTable[n][e] THEN {"AssertionError@115"} ELSE {})
    \cup (IF TRUE \in SanityTable[n][e]
          THEN {"CalledProcessError", "ValueError"}
               \cup ({ParseBitscore(m).raised : m \in OracleOutputs} \ {"none"})
          ELSE {})

-----------------------------------------------------------------------------
(* plot, lines 196-269.                                                    *)

Levels == 0..MaxLength

EmptyCounter == [e \in Levels |-> 0]

IsMiss(score) == score = 0

\* A faulty variant: every miss is plotted at the same height.
MissValue_NoStack(k) == -zeroBitscoreScale

\* A faulty variant: the stack starts one step lower.
MissValue_OffByOne(k) == -(k + 1) * zeroBitscoreScale

MissValue(k) == -k * zeroBitscoreScale

YlimLower(n) == -(n + 1) * zeroBitscoreScale

RECURSIVE SeqMax(_)
SeqMax(s) == IF Len(s) = 1 THEN s[1]
             ELSE LET m == SeqMax(Tail(s)) IN IF s[1] >= m THEN s[1] ELSE m

Repeat(x, n) == [i \in 1..(IF n > 0 THEN n ELSE 0) |-> x]

\* A faulty variant: the sweep includes the level equal to length.
InRange_Inclusive(e, stop) == e <= stop

\* range(0, length, errorIncrement): whether e is still a level.
InRange(e, stop) == e < stop

-----------------------------------------------------------------------------
(* main, lines 289-318: the grid.                                          *)

\* A faulty variant: the partly filled last row is forgotten.
Rows_Floor(n) == n \div cols

Rows(n) == n \div cols + (IF n % cols # 0 THEN 1 ELSE 0)

Exhausted == << >>

\* dimensionalIterator((rows, cols)): the cell after c, last dimension fastest.
NextCell(c, r) ==
    IF c[2] < cols - 1 THEN << c[1], c[2] + 1 >>
    ELSE IF c[1] < r - 1 THEN << c[1] + 1, 0 >>
    ELSE Exhausted

FirstCell(r) == IF r > 0 THEN << 0, 0 >> ELSE Exhausted

-----------------------------------------------------------------------------
(* Initial states.                                                         *)

PlotIdle ==
    /\ errorCount = 0 /\ iteration = 0
    /\ errorCounts = << >> /\ bitscores = << >> /\ color = << >>
    /\ successCounts = EmptyCounter /\ missCounts = EmptyCounter
    /\ successX = << >> /\ successY = << >> /\ ylim = << >>
    /\ sampledAt = << >> /\ matchSeen = FALSE

GenIdle == subject = << >> /\ indices = << >> /\ queryAa = << >>

MainStart(sens) ==
    /\ sensitivities = sens
    /\ rows = Rows(Len(sens))
    /\ dimensions = FirstCell(Rows(Len(sens)))
    /\ sensIdx = 1 /\ cell = << >> /\ drawn = << >> /\ hidden = {} /\ saved = FALSE

\* One run of the script, for the arguments argparse accepts within the bounds.
Init ==
    /\ length \in 0..MaxLength
    /\ errorIncrement \in 0..MaxIncrement
    /\ iterations \in 0..MaxIterations
    /\ MainStart(Sensitivities)
    /\ PlotIdle /\ GenIdle
    /\ pc = "main" /\ raised = "none"

\* main over a tuple of any number of sensitivities, one trial per sweep.
InitGrid ==
    /\ length = 1 /\ errorIncrement = 1 /\ iterations = 1
    /\ \E n \in 1..Len(Sensitivities) : MainStart(SubSeq(Sensitivities, 1, n))
    /\ PlotIdle /\ GenIdle
    /\ pc = "main" /\ raised = "none"

\* One call of sampleBitScore(errorCount, length, ...).
InitGen ==
    /\ length \in 1..MaxLength
    /\ errorCount \in 0..length
    /\ errorIncrement = 1 /\ iterations = 1
    /\ MainStart(Sensitivities)
    /\ iteration = 0
    /\ errorCounts = << >> /\ bitscores = << >> /\ color = << >>
    /\ successCounts = EmptyCounter /\ missCounts = EmptyCounter
    /\ successX = << >> /\ successY = << >> /\ ylim = << >>
    /\ sampledAt = << >> /\ matchSeen = FALSE
    /\ GenIdle
    /\ pc = "gen_subject" /\ raised = "none"

-----------------------------------------------------------------------------
(* sampleBitScore, step by step (lines 97-115).                            *)

DrawSubject ==
    /\ pc = "gen_subject"
    /\ subject' \in Subjects(length)
    /\ pc' = "gen_indices"
    /\ UNCHANGED << argVars, mainVars, plotVars, indices, queryAa, raised >>

ShuffleIndices ==
    /\ pc = "gen_indices"
    /\ \E p \in Shuffles(length) : indices' = Prefix(p, errorCount)
    /\ pc' = "gen_query"
    /\ UNCHANGED << argVars, mainVars, plotVars, subject, queryAa, raised >>

MutateQuery ==
    /\ pc = "gen_query"
    /\ queryAa' \in Queries(subject, subject, indices)
    /\ pc' = "gen_assert"
    /\ UNCHANGED << argVars, mainVars, plotVars, subject, indices, raised >>

AssertSanity ==
    /\ pc = "gen_assert"
    /\ IF errorCount = Hamming(queryAa, subject)
       THEN pc' = "gen_ok" /\ raised' = raised
       ELSE pc' = "halted" /\ raised' = "AssertionError@115"
    /\ UNCHANGED << argVars, mainVars, plotVars, genVars >>

NextGen == DrawSubject \/ ShuffleIndices \/ MutateQuery \/ AssertSanity

-----------------------------------------------------------------------------
(* plot.                                                                   *)

\* main line 298 and plot lines 196-213: take the next cell, start the sweep.
StartPlot ==
    /\ pc = "main"
    /\ sensIdx <= Len(sensitivities)
    /\ IF dimensions = Exhausted
       THEN /\ raised' = "StopIteration"
            /\ pc' = "halted"
            /\ UNCHANGED << cell, dimensions, plotVars >>
       ELSE /\ cell' = dimensions
            /\ dimensions' = NextCell(dimensions, rows)
            /\ errorCounts' = << >> /\ bitscores' = << >> /\ color' = << >>
            /\ successCounts' = EmptyCounter /\ missCounts' = EmptyCounter
            /\ successX' = << >> /\ successY' = << >> /\ ylim' = << >>
            /\ sampledAt' = << >> /\ matchSeen' = FALSE
            /\ errorCount' = 0 /\ iteration' = 0
            /\ IF errorIncrement = 0
               THEN raised' = "ValueError" /\ pc' = "halted"
               ELSE /\ raised' = "none"
                    /\ pc' = IF InRange(0, length) THEN "trial" ELSE "render"
    /\ UNCHANGED << argVars, sensitivities, rows, sensIdx, drawn, hidden, saved, genVars >>

InTrial ==
    /\ pc = "trial"
    /\ iteration < iterations

\* A faulty variant: a timed-out trial is booked as a miss, as if it had scored 0.0.
TrialTimeout_BookedAsMiss ==
    /\ InTrial
    /\ TRUE \in SanityTable[length][errorCount]
    /\ raised' = "TimeoutExpired"
    /\ missCounts' = [missCounts EXCEPT ![errorCount] = @ + 1]
    /\ UNCHANGED << argVars, mainVars, genVars, pc, errorCount, iteration, errorCounts,
                    bitscores, color, successCounts, successX, successY, ylim,
                    sampledAt, matchSeen >>

\* A faulty variant: a timed-out trial uses up an iteration.
TrialTimeout_CountsIteration ==
    /\ InTrial
    /\ TRUE \in SanityTable[length][errorCount]
    /\ raised' = "TimeoutExpired"
    /\ iteration' = iteration + 1
    /\ UNCHANGED << argVars, mainVars, genVars, pc, errorCount, errorCounts, bitscores,
                    color, successCounts, missCounts, successX, successY, ylim,
                    sampledAt, matchSeen >>

\* Lines 218-225: diamond blastx runs into timeout=2; plot prints a notice and loops.
TrialTimeout ==
    /\ InTrial
    /\ TRUE \in SanityTable[length][errorCount]
    /\ raised' = "TimeoutExpired"
    /\ UNCHANGED << argVars, mainVars, plotVars, genVars, pc >>

\* Line 126: diamond makedb is called without a timeout and does not return.
TrialHangs ==
    /\ InTrial
    /\ TRUE \in SanityTable[length][errorCount]
    /\ pc' = "hung"
    /\ UNCHANGED << argVars, mainVars, plotVars, genVars, raised >>

\* A faulty variant: every exception is caught like the timeout.
TrialFatal_Absorbed ==
    /\ InTrial
    /\ \E exc \in FatalErrors(length, errorCount) : raised' = exc
    /\ UNCHANGED << argVars, mainVars, plotVars, genVars, pc >>

\* Lines 115, 126, 136, 148, 150: an exception that plot does not catch ends the run.
TrialFatal ==
    /\ InTrial
    /\ \E exc \in FatalErrors(length, errorCount) : raised' = exc
    /\ pc' = "halted"
    /\ UNCHANGED << argVars, mainVars, plotVars, genVars >>

\* Lines 226-235: sampleBitScore returned a score.
TrialScored ==
    /\ InTrial
    /\ TRUE \in SanityTable[length][errorCount]
    /\ \E r \in Returns :
         LET score == r.bitscore
         IN  /\ matchSeen' = r.matched
             /\ IF IsMiss(score)
                THEN /\ missCounts' = [missCounts EXCEPT ![errorCount] = @ + 1]
                     /\ bitscores' = Append(bitscores, MissValue(missCounts'[errorCount]))
                     /\ color' = Append(color, missColor)
                     /\ UNCHANGED successCounts
                ELSE /\ bitscores' = Append(bitscores, score)
                     /\ color' = Append(color, matchColor)
                     /\ successCounts' = [successCounts EXCEPT ![errorCount] = @ + 1]
                     /\ UNCHANGED missCounts
    /\ iteration' = iteration + 1
    /\ sampledAt' = Append(sampledAt, errorCount)
    /\ raised' = "none"
    /\ UNCHANGED << argVars, mainVars, genVars, pc, errorCount, errorCounts,
                    successX, successY, ylim >>

\* Lines 214, 237, 209: the while loop ends, the level is booked, the next one starts.
EndLevel ==
    /\ pc = "trial"
    /\ ~(iteration < iterations)
    /\ errorCounts' = errorCounts \o Repeat(errorCount, iterations)
    /\ IF InRange(errorCount + errorIncrement, length)
       THEN errorCount' = errorCount + errorIncrement /\ iteration' = 0 /\ pc' = pc
       ELSE pc' = "render" /\ UNCHANGED << errorCount, iteration >>
    /\ UNCHANGED << argVars, mainVars, genVars, raised, bitscores, color, successCounts,
                    missCounts, successX, successY, ylim, sampledAt, matchSeen >>

\* range(0, length, errorIncrement) as a list, for errorIncrement >= 1.
RECURSIVE RangeFrom(_, _, _)
RangeFrom(e, stop, step) ==
    IF InRange(e, stop) THEN << e >> \o RangeFrom(e + step, stop, step) ELSE << >>

\* Lines 239-269, and the return to main's loop.
Render ==
    /\ pc = "render"
    /\ LET xs == RangeFrom(0, length, errorIncrement)
       IN  IF xs # << >> /\ iterations = 0
           THEN /\ raised' = "ZeroDivisionError" /\ pc' = "halted"
                /\ UNCHANGED << successX, successY, ylim, drawn, sensIdx >>
           ELSE IF bitscores = << >>
           THEN /\ raised' = "ValueError" /\ pc' = "halted"
                /\ successX' = xs
                /\ successY' = [i \in 1..Len(xs) |-> << successCounts[xs[i]], iterations >>]
                /\ UNCHANGED << ylim, drawn, sensIdx >>
           ELSE /\ successX' = xs
                /\ successY' = [i \in 1..Len(xs) |-> << successCounts[xs[i]], iterations >>]
                /\ ylim' = << YlimLower(iterations), SeqMax(bitscores) + ylimMargin >>
                /\ drawn' = Append(drawn, [sensitivity |-> sensitivities[sensIdx],
                                           row |-> cell[1], col |-> cell[2]])
                /\ sensIdx' = sensIdx + 1
                /\ pc' = "main"
                /\ raised' = raised
    /\ UNCHANGED << argVars, sensitivities, rows, dimensions, cell, hidden, saved, genVars,
                    errorCount, iteration, errorCounts, bitscores, color,
                    successCounts, missCounts, sampledAt, matchSeen >>

-----------------------------------------------------------------------------
(* main, lines 317-337.                                                    *)

AllPlotted == pc = "main" /\ sensIdx > Len(sensitivities)

\* Lines 317-318: one more cell of the iterator is switched off.
HideCell ==
    /\ AllPlotted
    /\ dimensions # Exhausted
    /\ hidden' = hidden \cup {dimensions}
    /\ dimensions' = NextCell(dimensions, rows)
    /\ UNCHANGED << argVars, sensitivities, rows, sensIdx, cell, drawn, saved,
                    plotVars, genVars, pc, raised >>

\* Lines 320-337: diamond --version answers, the figure is saved.
SaveFigure ==
    /\ AllPlotted
    /\ dimensions = Exhausted
    /\ saved' = TRUE
    /\ pc' = "done"
    /\ UNCHANGED << argVars, sensitivities, rows, dimensions, sensIdx, cell, drawn,
                    hidden, plotVars, genVars, raised >>

\* Line 321: diamond --version exits non-zero.
VersionFails ==
    /\ AllPlotted
    /\ dimensions = Exhausted
    /\ raised' = "CalledProcessError"
    /\ pc' = "halted"
    /\ UNCHANGED << argVars, mainVars, plotVars, genVars >>

Next ==
    \/ StartPlot
    \/ TrialTimeout
    \/ TrialHangs
    \/ TrialFatal
    \/ TrialScored
    \/ EndLevel
    \/ Render
    \/ HideCell
    \/ SaveFigure
    \/ VersionFails

Spec == Init /\ [][Next]_vars

SpecGrid == InitGrid /\ [][Next]_vars

SpecGen == InitGen /\ [][NextGen]_vars

-----------------------------------------------------------------------------
(* Properties.                                                             *)

SweepFinished == ylim # << >>

Trials == 1..Len(bitscores)

TrialsAt(e) == {j \in 1..Len(sampledAt) : sampledAt[j] = e}

\* C1: the query built by sampleBitScore has the length of the subject and differs
\* from it in exactly errorCount positions, so the sanity check of line 115 never
\* fails; errorCount = 0 leaves the query identical, errorCount = length changes
\* every position.
C1_ExactMismatches ==
    /\ raised = "none"
    /\ pc \in {"gen_assert", "gen_ok"} =>
         /\ Len(subject) = length
         /\ Len(queryAa) = length
         /\ Cardinality({i \in 1..length : queryAa[i] # subject[i]}) = errorCount
         /\ (errorCount = 0 => queryAa = subject)
         /\ (errorCount = length => \A i \in 1..length : queryAa[i] # subject[i])

C1_Witness == pc = "gen_ok" /\ length >= 2 /\ errorCount = length

\* C2: a sweep visits the levels 0, errorIncrement, 2*errorIncrement, ... below
\* length in increasing order; a finished sweep holds exactly `iterations` outcomes
\* per level, each tagged with the level it was sampled at, and one rate per level.
C2_SweepLevels ==
    /\ \A j \in 1..Len(sampledAt) :
         /\ sampledAt[j] < length
         /\ sampledAt[j] % errorIncrement = 0
         /\ j > 1 => sampledAt[j - 1] <= sampledAt[j]
    /\ SweepFinished =>
         LET n == Len(successX)
         IN  /\ \A i \in 1..n : successX[i] = (i - 1) * errorIncrement /\ successX[i] < length
             /\ n * errorIncrement >= length
             /\ Len(bitscores) = n * iterations
             /\ Len(color) = n * iterations
             /\ errorCounts = sampledAt
             /\ \A i \in 1..n : Cardinality(TrialsAt(successX[i])) = iterations
             /\ Len(successY) = n

C2_Witness ==
    /\ SweepFinished /\ length = 2 /\ errorIncrement = 1 /\ iterations = 2
    /\ successX = << 0, 1 >> /\ Len(bitscores) = 4

\* C3: a trial that ends in a timeout leaves the recorded scores, colors and
\* mismatch counts, both counters, the iteration counter and the level as they were,
\* and the loop is about to run another trial at the same level.
C3_TimeoutKeepsNothing ==
    [][ (raised' = "TimeoutExpired" /\ raised # "TimeoutExpired") =>
          /\ UNCHANGED << bitscores, color, errorCounts, sampledAt, successCounts,
                          missCounts, iteration, errorCount >>
          /\ pc' = "trial"
          /\ iteration' < iterations ]_vars

C3_Witness ==
    /\ raised = "TimeoutExpired" /\ pc = "trial"
    /\ iteration = 1 /\ errorCount > 0 /\ Len(bitscores) > 0

\* C4: the k-th miss recorded at a level within one sweep is plotted at -k * 2,
\* whatever happened at other levels, in between, or in earlier sweeps.
C4_MissStacking ==
    \A j \in Trials :
        color[j] = missColor =>
            bitscores[j] =
                -2 * Cardinality({i \in 1..j : color[i] = missColor
                                               /\ sampledAt[i] = sampledAt[j]})

C4_Witness ==
    /\ sensIdx >= 2
    /\ bitscores = << -2, 1, -2, -4 >>

\* C5: at the current level matches + misses equals the iteration counter; at a
\* finished level it equals iterations; the reported rate of a level is
\* matches / iterations, a value in [0, 1].
C5_MatchRate ==
    /\ pc = "trial" => successCounts[errorCount] + missCounts[errorCount] = iteration
    /\ \A j \in 1..Len(errorCounts) :
         successCounts[errorCounts[j]] + missCounts[errorCounts[j]] = iterations
    /\ SweepFinished =>
         \A i \in 1..Len(successX) :
             /\ successY[i][2] = iterations
             /\ successY[i][1] =
                    Cardinality({j \in TrialsAt(successX[i]) : color[j] = matchColor})
             /\ 0 <= successY[i][1]
             /\ successY[i][1] <= successY[i][2]
             /\ successY[i][2] >= 1

C5_Witness ==
    /\ SweepFinished /\ iterations = 2
    /\ \E i \in 1..Len(successY) : successY[i] = << 1, 2 >>

\* C6: the latest recorded trial is colored as a match exactly when the oracle
\* reported at least one candidate for it.
C6_MatchIffCandidates ==
    Len(color) > 0 => (color[Len(color)] = matchColor <=> matchSeen)

\* C7: with rows = ceil(count / cols) the configurations are drawn in order, the
\* i-th (from 0) in cell (i // cols, i % cols), no two in one cell; cells are
\* blanked only after the last one, and at the end exactly the rows*cols - count
\* trailing cells are.
C7_GridPlacement ==
    LET count == Len(sensitivities)
        CellIndex(c) == c[1] * cols + c[2]
    IN  /\ rows * cols >= count /\ (rows - 1) * cols < count
        /\ raised # "StopIteration"
        /\ Len(drawn) = sensIdx - 1
        /\ Len(drawn) <= count
        /\ \A i \in 1..Len(drawn) :
             /\ drawn[i].sensitivity = sensitivities[i]
             /\ drawn[i].row = (i - 1) \div cols
             /\ drawn[i].col = (i - 1) % cols
        /\ \A i, j \in 1..Len(drawn) :
             (drawn[i].row = drawn[j].row /\ drawn[i].col = drawn[j].col) => i = j
        /\ hidden # {} => Len(drawn) = count
        /\ \A c \in hidden : \A i \in 1..Len(drawn) : c # << drawn[i].row, drawn[i].col >>
        /\ pc = "done" =>
             /\ Len(drawn) = count
             /\ hidden = {c \in (0..(rows - 1)) \X (0..(cols - 1)) : CellIndex(c) >= count}
             /\ Cardinality(hidden) = rows * cols - count
             /\ (count % cols = 0 => hidden = {})

C7_Witness ==
    /\ pc = "done" /\ Len(sensitivities) = 8
    /\ drawn[8].row = 2 /\ drawn[8].col = 1
    /\ hidden = {<< 2, 2 >>}

\* C8: a timeout leaves the run in the loop at the same level; any other exception
\* halts the run, nothing runs after it and the figure is not saved; the figure is
\* saved only after every configuration has been drawn.
C8_OnlyTimeoutAbsorbed ==
    [][ /\ raised' \notin {"none", "TimeoutExpired"} => (pc' = "halted" /\ ~saved')
        /\ (raised' = "TimeoutExpired" /\ raised # "TimeoutExpired") =>
             (pc' = "trial" /\ errorCount' = errorCount /\ ~saved')
        /\ pc = "halted" => UNCHANGED vars
        /\ pc' = "halted" => ~saved'
        /\ saved' => (Len(drawn') = Len(sensitivities) /\ raised' = "none") ]_vars

C8_Witness ==
    /\ pc = "halted" /\ raised = "AssertionError@150"
    /\ sensIdx >= 2 /\ Len(bitscores) > 0 /\ ~saved

\* C9: no oracle invocation of a trial blocks forever.
C9_OracleCallsBounded == pc # "hung"

\* C10: in a finished sweep every plotted value lies strictly inside the y axis:
\* every stacked miss is above -(iterations + 1) * 2 and below zero, every value is
\* below the largest one + 5.
C10_InsideAxis ==
    SweepFinished =>
        /\ ylim[1] = -(iterations + 1) * 2
        /\ \A j \in Trials : bitscores[j] <= ylim[2] - 5
        /\ \E j \in Trials : bitscores[j] = ylim[2] - 5
        /\ \A j \in Trials :
             /\ ylim[1] < bitscores[j]
             /\ bitscores[j] < ylim[2]
             /\ color[j] = missColor => bitscores[j] < 0

C10_Witness ==
    /\ SweepFinished /\ iterations = 2 /\ Len(bitscores) = 4
    /\ \A j \in Trials : color[j] = missColor

=============================================================================
